---- MODULE Spec2Model ----
(***************************************************************************)
(* Model of the checkout pipeline of noite-encontros-premium:              *)
(*   - src/src/pages/PlanSelection.tsx     plan / duration selection       *)
(*   - src/unnamed/part_000                identity document verification  *)
(*   - src/src/components/payment/PaymentModal.tsx   payment dialog        *)
(*                                                                         *)
(* React state hooks are the variables.  An event handler together with    *)
(* the re-renders and the useEffect callbacks it triggers is one action:   *)
(* the effects of a commit are taken to run before the next event is       *)
(* handled.  An async handler is split at its await points.                *)
(***************************************************************************)
EXTENDS Integers, Sequences, FiniteSets, TLC

VARIABLES
    \* ---- PlanSelection.tsx
    plans,              \* useRealTimeUpdates('subscription_plans', [])
    selectedPlan,       \* useState<string | null>(null)
    selectedDuration,   \* useState<string>("3dias")
    localStorage,       \* window.localStorage, keys selectedPlan / selectedDuration
    location,           \* route shown by the router
    toast,              \* title of the last toast shown
    \* ---- part_000 (DocumentVerification)
    user,               \* useAuth().user
    documentImages,     \* useState<DocumentImage[]>, keyed by slot id
    readers,            \* FileReader reads in flight
    inputFiles,         \* e.target.files[0] of each slot's latest change event
    isUploading,        \* useState(false)
    pc,                 \* the await handleContinue is suspended at
    task,               \* locals of the current / last handleContinue run
    storage,            \* bucket 'verifications' : path -> file
    uploadCalls,        \* storage upload calls issued, in order
    insertCalls,        \* number of insert calls issued
    records,            \* table verification_documents, rows in insertion order
    now,                \* Date.now()
    \* ---- PaymentModal.tsx
    open,               \* prop open, owned by the parent
    paymentMethod,      \* useState<string>("credit_card")
    cardDetails,        \* useState({number, name, expiry, cvc}) : length of each text
    isProcessing,       \* useState(false)
    timers,             \* setTimeout callbacks not run yet
    accepted,           \* submissions that passed validation (history)
    completeCalls,      \* calls of onPaymentComplete (history)
    closeCalls,         \* calls of onClose (history)
    \* ---- pricing functions applied to given inputs
    fnBasePrice, fnDuration, fnAmount, fnAvailable,
    \* ---- last handler that ran (history)
    lastOp

selVars == <<plans, selectedPlan, selectedDuration, localStorage, location, toast>>
docVars == <<user, documentImages, readers, inputFiles, isUploading, pc, task, storage,
             uploadCalls, insertCalls, records, now>>
payVars == <<open, paymentMethod, cardDetails, isProcessing, timers, accepted,
             completeCalls, closeCalls>>
fnVars  == <<fnBasePrice, fnDuration, fnAmount, fnAvailable>>
vars    == <<selVars, docVars, payVars, fnVars, lastOp>>

----------------------------------------------------------------------------
(* Bounds *)

MaxPlans == 2         \* number of plan ids; a catalog holds each id at most once
MaxBasePrice == 100   \* base prices given to calculatePrice range over 0..MaxBasePrice
MaxReaders == 2       \* FileReader reads in flight at once
MaxTime == 1          \* Date.now() ranges over 1..MaxTime when a submission starts
MaxPayments == 2      \* payments that pass validation
MaxCloses == 1        \* times the user dismisses the payment dialog

----------------------------------------------------------------------------
(* part_000 (DocumentVerification) : data *)

NoUser == "null"                  \* user === null
NoFile == "undefined"             \* img.file === undefined
Placeholder == "/placeholder.svg"
NoTask == [owner |-> NoUser]

SlotIds == {"front", "back", "selfie"}
SlotOrder == <<"front", "back", "selfie">>
Users == {"u1"}                   \* user.id of the session
Files == {"fileA", "fileB"}       \* the files a user can select

----------------------------------------------------------------------------
(* PaymentModal.tsx : data *)

MinNumberLength == 16             \* cardDetails.number.length < 16
MinExpiryLength == 5              \* cardDetails.expiry.length < 5
MinCvcLength == 3                 \* cardDetails.cvc.length < 3

PaymentMethods == {"credit_card", "pix"}
CardFields == {"number", "name", "expiry", "cvc"}

\* lengths of the texts typed into a field: empty, short, one below the
\* minimum, the minimum
FieldLengths(field) ==
    CASE field = "number" -> {0, 3, MinNumberLength - 1, MinNumberLength}
      [] field = "name"   -> {0, 1}
      [] field = "expiry" -> {0, MinExpiryLength - 1, MinExpiryLength}
      [] field = "cvc"    -> {0, MinCvcLength - 1, MinCvcLength}

----------------------------------------------------------------------------
(* PlanSelection.tsx : data *)

NoPlan == "null"                  \* selectedPlan === null
Absent == "(no item)"             \* a localStorage key never set
NotComputed == 0 - 1                \* the function has not been applied
NoToast == "none"

PlanIds == {"plan-" \o ToString(i) : i \in 1..MaxPlans}
PlanPrices == {0, 100}            \* a free and a paid price
Plan == [id : PlanIds, price : PlanPrices]

DurationIds == {"1dia", "3dias", "15dias", "1mes", "3meses"}

\* multiplier as a fraction num/den
durationOptions ==
    [d \in DurationIds |->
        CASE d = "1dia"   -> [label |-> "1 dia",   num |-> 1, den |-> 2]
          [] d = "3dias"  -> [label |-> "3 dias",  num |-> 1, den |-> 1]
          [] d = "15dias" -> [label |-> "15 dias", num |-> 5, den |-> 2]
          [] d = "1mes"   -> [label |-> "1 mes",   num |-> 7, den |-> 2]
          [] d = "3meses" -> [label |-> "3 meses", num |-> 8, den |-> 1]]

\* the snapshots the catalog subscription can deliver: rows with distinct ids
Catalogs ==
    { s \in UNION { [1..n -> Plan] : n \in 0..MaxPlans } :
        \A i, j \in DOMAIN s : s[i].id = s[j].id => i = j }

\* plans.find(p => p.id === id) : index of the first matching row, 0 if none
FindIndex(pl, id) ==
    IF \E i \in DOMAIN pl : pl[i].id = id
    THEN CHOOSE i \in DOMAIN pl :
            pl[i].id = id /\ \A j \in DOMAIN pl : pl[j].id = id => i <= j
    ELSE 0

InCatalog(pl, id) == FindIndex(pl, id) # 0
find(pl, id) == pl[FindIndex(pl, id)]

----------------------------------------------------------------------------
(* PlanSelection.tsx : pure functions *)

\* mutant: truncation (Math.floor) instead of Math.round
MathRoundTruncates(n, d) == n \div d

\* Math.round(n/d) for d > 0 : floor(n/d + 1/2)
MathRound(n, d) == (2 * n + d) \div (2 * d)

calculatePrice(basePrice, m) ==
    IF basePrice = 0 THEN 0 ELSE MathRound(basePrice * m.num, m.den)

\* mutant: the free-plan test is inverted
getAvailableDurationsInverted(plan) ==
    IF plan.price # 0 THEN {"1dia"} ELSE DurationIds

getAvailableDurations(plan) ==
    IF plan.price = 0 THEN {"1dia"} ELSE DurationIds

----------------------------------------------------------------------------
(* PlanSelection.tsx : effects *)

\* mutant: the default is the last plan of the snapshot
DefaultPlanEffectLast(sp, pl) ==
    IF Len(pl) > 0 /\ sp = NoPlan THEN pl[Len(pl)].id ELSE sp

\* useEffect(..., [plans, selectedPlan]) : default plan
DefaultPlanEffect(sp, pl) ==
    IF Len(pl) > 0 /\ sp = NoPlan THEN pl[1].id ELSE sp

\* mutant: the effect never corrects the duration
DurationEffectMissing(sp, sd, pl) == sd

\* mutant: a paid plan gets the initial duration back
DurationEffectRestores(sp, sd, pl) ==
    IF sp # NoPlan /\ InCatalog(pl, sp) /\ find(pl, sp).price = 0 /\ sd # "1dia"
    THEN "1dia"
    ELSE IF sp # NoPlan /\ InCatalog(pl, sp) /\ find(pl, sp).price # 0 /\ sd = "1dia"
    THEN "3dias"
    ELSE sd

\* useEffect(..., [selectedPlan, plans]) : free plans are locked to "1dia"
DurationEffect(sp, sd, pl) ==
    IF sp # NoPlan /\ InCatalog(pl, sp) /\ find(pl, sp).price = 0 /\ sd # "1dia"
    THEN "1dia"
    ELSE sd

\* Both effects of a commit read that render's values; the state they set
\* is rendered again until a render changes nothing.
RECURSIVE RunEffects(_, _, _)
RunEffects(sp, sd, pl) ==
    LET sp2 == DefaultPlanEffect(sp, pl)
        sd2 == DurationEffect(sp, sd, pl)
    IN  IF sp2 = sp /\ sd2 = sd THEN <<sp, sd>> ELSE RunEffects(sp2, sd2, pl)

----------------------------------------------------------------------------
(* PlanSelection.tsx : operations *)

Mounted == location = "/planos"

\* the subscription delivers a snapshot; the local copy is replaced wholesale
CatalogUpdate(snapshot) ==
    /\ Mounted
    /\ plans' = snapshot
    /\ LET s == RunEffects(selectedPlan, selectedDuration, snapshot)
       IN  selectedPlan' = s[1] /\ selectedDuration' = s[2]
    /\ lastOp' = "catalogUpdate"
    /\ UNCHANGED <<localStorage, location, toast, docVars, fnVars, payVars>>

\* mutant: the click sets the plan and no effect runs after it
ChoosePlanWithoutEffects(id) ==
    /\ Mounted
    /\ InCatalog(plans, id)
    /\ selectedPlan' = id
    /\ lastOp' = "choosePlan"
    /\ UNCHANGED <<plans, selectedDuration, localStorage, location, toast, docVars, fnVars, payVars>>

\* onClick of a plan card : setSelectedPlan(plan.id)
ChoosePlan(id) ==
    /\ Mounted
    /\ InCatalog(plans, id)
    /\ LET s == RunEffects(id, selectedDuration, plans)
       IN  selectedPlan' = s[1] /\ selectedDuration' = s[2]
    /\ lastOp' = "choosePlan"
    /\ UNCHANGED <<plans, localStorage, location, toast, docVars, fnVars, payVars>>

\* mutant: every duration is rendered whatever the plan
OfferedDurationsAll == DurationIds

\* the duration items rendered for the selected plan
OfferedDurations ==
    IF selectedPlan # NoPlan /\ InCatalog(plans, selectedPlan)
    THEN getAvailableDurations(find(plans, selectedPlan))
    ELSE {}

\* RadioGroup onValueChange={setSelectedDuration}; neither effect depends on
\* selectedDuration, so none runs
ChooseDuration(d) ==
    /\ Mounted
    /\ d \in OfferedDurations
    /\ selectedDuration' = d
    /\ lastOp' = "chooseDuration"
    /\ UNCHANGED <<plans, selectedPlan, localStorage, location, toast, docVars, fnVars, payVars>>

\* mutant: the early return on a missing plan is dropped
handleContinueUnguarded ==
    /\ Mounted
    /\ localStorage' = [selectedPlan |-> selectedPlan,
                        selectedDuration |-> selectedDuration]
    /\ toast' = "Plano selecionado"
    /\ location' = "/verificacao"
    /\ lastOp' = "handleContinue"
    /\ UNCHANGED <<plans, selectedPlan, selectedDuration, docVars, fnVars, payVars>>

\* mutant: the duration key is not written
handleContinueKeepsDuration ==
    /\ Mounted
    /\ IF selectedPlan = NoPlan
       THEN UNCHANGED <<localStorage, toast, location>>
       ELSE /\ localStorage' = [localStorage EXCEPT !.selectedPlan = selectedPlan]
            /\ toast' = "Plano selecionado"
            /\ location' = "/verificacao"
    /\ lastOp' = "handleContinue"
    /\ UNCHANGED <<plans, selectedPlan, selectedDuration, docVars, fnVars, payVars>>

handleContinue ==
    /\ Mounted
    /\ IF selectedPlan = NoPlan
       THEN UNCHANGED <<localStorage, toast, location>>
       ELSE /\ localStorage' = [selectedPlan |-> selectedPlan,
                                selectedDuration |-> selectedDuration]
            /\ toast' = "Plano selecionado"
            /\ location' = "/verificacao"
    /\ lastOp' = "handleContinue"
    /\ UNCHANGED <<plans, selectedPlan, selectedDuration, docVars, fnVars, payVars>>

\* the route is entered again : the component mounts with its initial state
EnterPlanSelection ==
    /\ ~Mounted
    /\ location' = "/planos"
    /\ plans' = <<>>
    /\ selectedPlan' = NoPlan
    /\ selectedDuration' = "3dias"
    /\ lastOp' = "mount"
    /\ UNCHANGED <<localStorage, toast, docVars, fnVars, payVars>>

SelInit ==
    /\ plans = <<>>
    /\ selectedPlan = NoPlan
    /\ selectedDuration = "3dias"
    /\ localStorage = [selectedPlan |-> Absent, selectedDuration |-> Absent]
    /\ location = "/planos"
    /\ toast = NoToast

DocIdle ==
    /\ user = NoUser
    /\ documentImages = [s \in SlotIds |-> [file |-> NoFile, preview |-> Placeholder]]
    /\ readers = {}
    /\ inputFiles = [s \in SlotIds |-> NoFile]
    /\ isUploading = FALSE
    /\ pc = "idle"
    /\ task = NoTask
    /\ storage = {}
    /\ uploadCalls = <<>>
    /\ insertCalls = 0
    /\ records = <<>>
    /\ now = 1

PayIdle ==
    /\ open = FALSE
    /\ paymentMethod = "credit_card"
    /\ cardDetails = [number |-> 0, name |-> 0, expiry |-> 0, cvc |-> 0]
    /\ isProcessing = FALSE
    /\ timers = 0
    /\ accepted = 0
    /\ completeCalls = 0
    /\ closeCalls = 0

FnIdle ==
    /\ fnBasePrice = 0
    /\ fnDuration = "none"
    /\ fnAmount = NotComputed
    /\ fnAvailable = {}

SelNext ==
    \/ \E snapshot \in Catalogs : CatalogUpdate(snapshot)
    \/ \E id \in PlanIds : ChoosePlan(id)
    \/ \E d \in DurationIds : ChooseDuration(d)
    \/ handleContinue
    \/ EnterPlanSelection

InitSelection == SelInit /\ DocIdle /\ PayIdle /\ FnIdle /\ lastOp = "init"

SpecSelection == InitSelection /\ [][SelNext]_vars


----------------------------------------------------------------------------
(* PaymentModal.tsx : operations *)

\* mutant: the card is validated whatever the method
NeedsValidationAlways(method) == TRUE

\* if (paymentMethod === "credit_card")
NeedsValidation(method) == method = "credit_card"

\* mutant: the cvc is not looked at
CardInvalidIgnoresCvc(cd) ==
    cd.number < MinNumberLength \/ cd.name = 0 \/ cd.expiry < MinExpiryLength

\* number.length < 16 || !name || expiry.length < 5 || cvc.length < 3
CardInvalid(cd) ==
    \/ cd.number < MinNumberLength
    \/ cd.name = 0
    \/ cd.expiry < MinExpiryLength
    \/ cd.cvc < MinCvcLength

\* mutant: the pay button is not disabled while processing
SubmitEnabledAlways == open

\* the pay button is rendered in the open dialog, disabled={isProcessing}
SubmitEnabled == open /\ ~isProcessing

\* the parent's onClose : it stops showing the dialog
onClose ==
    /\ open' = FALSE
    /\ closeCalls' = closeCalls + 1

\* the parent shows the dialog
OpenDialog ==
    /\ ~open
    /\ open' = TRUE
    /\ lastOp' = "open"
    /\ UNCHANGED <<paymentMethod, cardDetails, isProcessing, timers, accepted,
                   completeCalls, closeCalls, toast,
                   plans, selectedPlan, selectedDuration, localStorage, location,
                   docVars, fnVars>>

\* Dialog onOpenChange={onClose} : the user dismisses the dialog
CloseDialog ==
    /\ open
    /\ closeCalls - completeCalls < MaxCloses
    /\ onClose
    /\ lastOp' = "close"
    /\ UNCHANGED <<paymentMethod, cardDetails, isProcessing, timers, accepted,
                   completeCalls, toast,
                   plans, selectedPlan, selectedDuration, localStorage, location,
                   docVars, fnVars>>

\* RadioGroup onValueChange={setPaymentMethod}
setPaymentMethod(method) ==
    /\ open
    /\ paymentMethod' = method
    /\ lastOp' = "setPaymentMethod"
    /\ UNCHANGED <<open, cardDetails, isProcessing, timers, accepted,
                   completeCalls, closeCalls, toast,
                   plans, selectedPlan, selectedDuration, localStorage, location,
                   docVars, fnVars>>

\* the card inputs are rendered for the credit card only
handleInputChange(name, value) ==
    /\ open
    /\ paymentMethod = "credit_card"
    /\ cardDetails' = [cardDetails EXCEPT ![name] = value]
    /\ lastOp' = "handleInputChange"
    /\ UNCHANGED <<open, paymentMethod, isProcessing, timers, accepted,
                   completeCalls, closeCalls, toast,
                   plans, selectedPlan, selectedDuration, localStorage, location,
                   docVars, fnVars>>

handleSubmit ==
    /\ SubmitEnabled
    /\ lastOp' = "handleSubmit"
    /\ IF NeedsValidation(paymentMethod) /\ CardInvalid(cardDetails)
       THEN /\ toast' = "Informacoes incompletas"
            /\ UNCHANGED <<isProcessing, timers, accepted>>
       ELSE /\ accepted < MaxPayments
            /\ isProcessing' = TRUE
            /\ timers' = timers + 1          \* setTimeout(..., 2000)
            /\ accepted' = accepted + 1
            /\ UNCHANGED toast
    /\ UNCHANGED <<open, paymentMethod, cardDetails, completeCalls, closeCalls,
                   plans, selectedPlan, selectedDuration, localStorage, location,
                   docVars, fnVars>>

\* mutant: the callback of the timer does not call onPaymentComplete
TimerFiresWithoutCallback ==
    /\ timers > 0
    /\ timers' = timers - 1
    /\ isProcessing' = FALSE
    /\ toast' = "Pagamento aprovado!"
    /\ onClose
    /\ lastOp' = "timeout"
    /\ UNCHANGED <<paymentMethod, cardDetails, accepted, completeCalls,
                   plans, selectedPlan, selectedDuration, localStorage, location,
                   docVars, fnVars>>

\* the callback given to setTimeout runs
TimerFires ==
    /\ timers > 0
    /\ timers' = timers - 1
    /\ isProcessing' = FALSE
    /\ toast' = "Pagamento aprovado!"
    /\ completeCalls' = completeCalls + 1    \* onPaymentComplete()
    /\ onClose
    /\ lastOp' = "timeout"
    /\ UNCHANGED <<paymentMethod, cardDetails, accepted,
                   plans, selectedPlan, selectedDuration, localStorage, location,
                   docVars, fnVars>>

PayNext ==
    \/ OpenDialog
    \/ CloseDialog
    \/ \E m \in PaymentMethods : setPaymentMethod(m)
    \/ \E f \in CardFields : \E v \in FieldLengths(f) : handleInputChange(f, v)
    \/ handleSubmit
    \/ TimerFires

InitPayment == SelInit /\ DocIdle /\ PayIdle /\ FnIdle /\ lastOp = "init"

SpecPayment == InitPayment /\ [][PayNext]_vars

\* the event loop runs a due timer callback
SpecPaymentFair == SpecPayment /\ WF_vars(TimerFires)

----------------------------------------------------------------------------
(* Properties of PlanSelection.tsx *)

SelectedRow == find(plans, selectedPlan)
SelectedIsFree ==
    selectedPlan # NoPlan /\ InCatalog(plans, selectedPlan) /\ SelectedRow.price = 0

\* C1: whenever the selected plan is in the catalog with base price 0 the
\* selected duration is "1dia"; so is the duration that handleContinue has
\* just written next to a free plan.
C1_FreePlanHasShortestDuration ==
    /\ SelectedIsFree => selectedDuration = "1dia"
    /\ (lastOp = "handleContinue" /\ location = "/verificacao"
          /\ \E i \in DOMAIN plans :
                plans[i].id = localStorage.selectedPlan /\ plans[i].price = 0)
       => localStorage.selectedDuration = "1dia"

\* a free plan and "1dia" were written by handleContinue although the mount
\* started from "3dias" and the catalog also offers a paid plan
C1_Witness ==
    /\ lastOp = "handleContinue" /\ location = "/verificacao"
    /\ SelectedIsFree
    /\ localStorage = [selectedPlan |-> selectedPlan, selectedDuration |-> "1dia"]
    /\ \E i \in DOMAIN plans : plans[i].price > 0

\* C4: a click that selects a free plan while another duration than "1dia"
\* is selected leaves the duration at "1dia" when the click has been handled.
C4_ChoosingFreePlanForcesShortest ==
    [][(lastOp' = "choosePlan" /\ selectedDuration # "1dia"
          /\ \E i \in DOMAIN plans' :
                plans'[i].id = selectedPlan' /\ plans'[i].price = 0)
       => selectedDuration' = "1dia"]_vars

\* a free plan was chosen by a click, in a catalog that also holds a paid plan
C4_Witness ==
    /\ lastOp = "choosePlan"
    /\ SelectedIsFree
    /\ selectedDuration = "1dia"
    /\ \E i \in DOMAIN plans : plans[i].price > 0

\* C5: handleContinue with no plan selected writes neither key, shows no
\* toast and does not navigate.
C5_ContinueWithoutPlanIsNoOp ==
    [][(lastOp' = "handleContinue" /\ selectedPlan = NoPlan)
       => (localStorage' = localStorage /\ location' = location /\ toast' = toast)]_vars

\* handleContinue ran with no plan selected
C5_Witness ==
    /\ lastOp = "handleContinue"
    /\ selectedPlan = NoPlan
    /\ location = "/planos"
    /\ localStorage = [selectedPlan |-> Absent, selectedDuration |-> Absent]

\* the durations the selected plan allows : only "1dia" for a free plan, all
\* five for a paid one, none without a plan of the catalog
LegalDurations ==
    IF selectedPlan = NoPlan \/ ~InCatalog(plans, selectedPlan) THEN {}
    ELSE IF SelectedRow.price = 0 THEN {"1dia"}
    ELSE {"1dia", "3dias", "15dias", "1mes", "3meses"}

C22_DefaultPlanIsFirstAndSticky ==
    /\ [](location = "/planos" /\ Len(plans) > 0 => selectedPlan # "null")
    /\ [][lastOp' = "catalogUpdate"
           => IF selectedPlan = "null"
              THEN selectedPlan' = IF Len(plans') > 0 THEN plans'[1].id ELSE "null"
              ELSE selectedPlan' = selectedPlan]_vars

C22_Witness ==
    /\ lastOp = "catalogUpdate"
    /\ Len(plans) = 2
    /\ selectedPlan = plans[2].id

\* C23: a continue with a plan selected leaves the two keys holding the
\* plan id and the duration id of that moment and shows the verification
\* route; nothing else writes the keys, so they hold the selection of the
\* most recent continue.
C23_ContinuePersistsSelection ==
    /\ [][(lastOp' = "handleContinue" /\ selectedPlan # "null")
           => /\ localStorage'.selectedPlan = selectedPlan
              /\ localStorage'.selectedDuration = selectedDuration
              /\ location' = "/verificacao"]_vars
    /\ [][localStorage' # localStorage
           => (lastOp' = "handleContinue" /\ selectedPlan # "null")]_vars

C23_Witness ==
    /\ lastOp = "handleContinue"
    /\ location = "/verificacao"
    /\ selectedPlan = "plan-2"
    /\ selectedDuration = "1mes"
    /\ localStorage = [selectedPlan |-> "plan-2", selectedDuration |-> "1mes"]

\* C24: the plan id written by a continue names a plan of the catalog held
\* at that moment.
C24_PersistedPlanIsInCatalog ==
    [][(lastOp' = "handleContinue" /\ selectedPlan # "null")
       => \E i \in DOMAIN plans : plans[i].id = localStorage'.selectedPlan]_vars

\* C27: a plan choice or a catalog update changes the selected duration
\* only to "1dia" and only when the plan then selected is a free plan of the
\* catalog; going from a free plan to a paid one keeps "1dia".
C27_DurationOnlyForcedToShortest ==
    /\ [][(lastOp' \in {"choosePlan", "catalogUpdate"}
              /\ selectedDuration' # selectedDuration)
           => /\ selectedDuration' = "1dia"
              /\ \E i \in DOMAIN plans' :
                    plans'[i].id = selectedPlan' /\ plans'[i].price = 0]_vars
    /\ [][(lastOp' = "choosePlan" /\ SelectedIsFree
              /\ \E i \in DOMAIN plans' :
                    plans'[i].id = selectedPlan' /\ plans'[i].price # 0)
           => selectedDuration' = "1dia"]_vars

C27_Witness ==
    /\ lastOp = "choosePlan"
    /\ selectedDuration = "1dia"
    /\ selectedPlan # NoPlan /\ InCatalog(plans, selectedPlan) /\ SelectedRow.price # 0
    /\ \E i \in DOMAIN plans : plans[i].price = 0

----------------------------------------------------------------------------
(* Properties of PaymentModal.tsx *)

\* C12: a credit-card submission with a number of at least 16 characters, a
\* holder name, an expiry of at least 5 and a cvc of at least 3 characters
\* enters processing and starts one timer; the timer's callback ends
\* processing, shows the approval, calls onPaymentComplete once and closes
\* the dialog; every accepted submission is either pending or has called
\* the callback once; processing always ends.
C12_ValidCardPaymentSettles ==
    /\ [][(lastOp' = "handleSubmit" /\ paymentMethod = "credit_card"
              /\ cardDetails.number >= 16 /\ cardDetails.name > 0
              /\ cardDetails.expiry >= 5 /\ cardDetails.cvc >= 3)
           => (isProcessing' /\ timers' = timers + 1 /\ accepted' = accepted + 1
               /\ completeCalls' = completeCalls /\ open')]_vars
    /\ [][timers' < timers
           => (/\ ~isProcessing'
               /\ toast' = "Pagamento aprovado!"
               /\ completeCalls' = completeCalls + 1
               /\ closeCalls' = closeCalls + 1
               /\ ~open')]_vars
    /\ [](completeCalls + timers = accepted)
    /\ (isProcessing ~> ~isProcessing)

C12_Witness ==
    /\ lastOp = "timeout"
    /\ paymentMethod = "credit_card"
    /\ cardDetails = [number |-> 16, name |-> 1, expiry |-> 5, cvc |-> 3]
    /\ accepted = 1 /\ completeCalls = 1 /\ closeCalls = 1
    /\ ~open /\ ~isProcessing
    /\ toast = "Pagamento aprovado!"

\* C13: a credit-card submission that breaks one of the four rules shows
\* the validation message and changes nothing else: processing is not
\* entered, no timer is started, no callback is called and the dialog stays
\* open.
C13_InvalidCardIsRejected ==
    [][(lastOp' = "handleSubmit" /\ paymentMethod = "credit_card"
          /\ (\/ cardDetails.number < 16 \/ cardDetails.name = 0
              \/ cardDetails.expiry < 5 \/ cardDetails.cvc < 3))
       => (/\ toast' = "Informacoes incompletas"
           /\ ~isProcessing' /\ timers' = timers /\ accepted' = accepted
           /\ completeCalls' = completeCalls /\ closeCalls' = closeCalls
           /\ open' /\ cardDetails' = cardDetails
           /\ paymentMethod' = paymentMethod)]_vars

C13_Witness ==
    /\ lastOp = "handleSubmit"
    /\ toast = "Informacoes incompletas"
    /\ paymentMethod = "credit_card"
    /\ cardDetails = [number |-> 16, name |-> 1, expiry |-> 5, cvc |-> 2]
    /\ open /\ ~isProcessing /\ timers = 0 /\ accepted = 0 /\ completeCalls = 0

\* C14: when the timer's callback runs after the dialog was closed it calls
\* neither onPaymentComplete nor onClose.
C14_ClosedDialogDiscardsSettlement ==
    [][(timers' < timers /\ ~open)
       => (completeCalls' = completeCalls /\ closeCalls' = closeCalls)]_vars

\* C16: at most one timer is pending, it is pending only while processing,
\* and onPaymentComplete has been called at most once per accepted
\* submission.
C16_OneSettlementInFlight ==
    /\ timers <= 1
    /\ (timers = 1) <=> isProcessing
    /\ completeCalls <= accepted

C16_Witness ==
    /\ accepted = 2 /\ timers = 1 /\ completeCalls = 1 /\ isProcessing /\ open

\* C17: a pix submission is accepted whatever the card fields hold: it
\* enters processing and starts a timer without any validation message,
\* and the timer's callback reports the approval and calls
\* onPaymentComplete.
C17_PixIsNotValidated ==
    /\ [][(lastOp' = "handleSubmit" /\ paymentMethod = "pix")
           => (isProcessing' /\ timers' = timers + 1 /\ toast' = toast)]_vars
    /\ [][(lastOp' = "timeout" /\ paymentMethod = "pix")
           => (toast' = "Pagamento aprovado!"
               /\ completeCalls' = completeCalls + 1)]_vars

C17_Witness ==
    /\ lastOp = "handleSubmit"
    /\ paymentMethod = "pix"
    /\ cardDetails = [number |-> 0, name |-> 0, expiry |-> 0, cvc |-> 0]
    /\ isProcessing /\ timers = 1 /\ accepted = 1
    /\ toast # "Informacoes incompletas"

----------------------------------------------------------------------------
(* Properties of the pricing functions *)

\* r is n/d rounded to the nearest integer, halves up : r - 1/2 <= n/d < r + 1/2
IsRoundHalfUp(r, n, d) == d * (2 * r - 1) <= 2 * n /\ 2 * n < d * (2 * r + 1)

\* C2: calculatePrice is 0 for base price 0 under every multiplier, and for
\* a base price > 0 it is basePrice x multiplier rounded half up;
\* calculatePrice(100, 2.5) = 250 and calculatePrice(99, 0.5) = 50.
C2_PriceIsRoundedProduct ==
    fnAmount # NotComputed =>
        /\ fnBasePrice = 0 => fnAmount = 0
        /\ fnBasePrice > 0 =>
              IsRoundHalfUp(fnAmount, fnBasePrice * durationOptions[fnDuration].num,
                            durationOptions[fnDuration].den)
        /\ (fnBasePrice = 100 /\ fnDuration = "15dias") => fnAmount = 250
        /\ (fnBasePrice = 99 /\ fnDuration = "1dia") => fnAmount = 50

\* the half-way case 99 x 0.5 was computed
C2_Witness == fnBasePrice = 99 /\ fnDuration = "1dia" /\ fnAmount = 50

\* C3: getAvailableDurations is {"1dia"} for a plan of base price 0 and all
\* five durations for a plan of base price > 0.
C3_AvailableDurations ==
    fnAvailable # {} =>
        /\ fnBasePrice = 0 => fnAvailable = {"1dia"}
        /\ fnBasePrice > 0 => fnAvailable = {"1dia", "3dias", "15dias", "1mes", "3meses"}

\* the durations of a free plan were computed
C3_Witness == fnBasePrice = 0 /\ fnAvailable = {"1dia"}

----------------------------------------------------------------------------
(* part_000 (DocumentVerification) : helpers *)

\* reader.readAsDataURL(file) : the preview decoded from the file
DataUrl(file) == <<"data:", file>>

\* `verification/${user.id}/${slot}_${Date.now()}`
Path(owner, slot, t) == <<"verification", owner, slot, t>>

\* supabase.storage.from('verifications').getPublicUrl(path).data.publicUrl
getPublicUrl(path) == <<"public/verifications", path>>

\* mutant: some() instead of every()
allUploadedSome(imgs) == \E s \in SlotIds : imgs[s].file # NoFile

\* documentImages.every(img => img.file)
allUploaded(imgs) == \A s \in SlotIds : imgs[s].file # NoFile

SlotIndex(s) == CHOOSE i \in 1..3 : SlotOrder[i] = s

\* mutant: the selfie is uploaded before the back
NextUploadBackLast(s) ==
    CASE s = "front" -> "selfie" [] s = "selfie" -> "back" [] s = "back" -> "none"

\* the upload awaited after the one of slot s, "none" after the last
NextUpload(s) == IF SlotIndex(s) < 3 THEN SlotOrder[SlotIndex(s) + 1] ELSE "none"

\* mutant: only the first upload's error is looked at
AnyUploadErrorFrontOnly(results) == results["front"] = "error"

\* frontUpload.error || backUpload.error || selfieUpload.error
AnyUploadError(results) == \E s \in SlotIds : results[s] = "error"

\* mutant: the front and back addresses are exchanged
NewRowSwapped(t) ==
    [user_id |-> t.owner,
     document_front_url  |-> getPublicUrl(Path(t.owner, "back", t.ts)),
     document_back_url   |-> getPublicUrl(Path(t.owner, "front", t.ts)),
     document_selfie_url |-> getPublicUrl(Path(t.owner, "selfie", t.ts)),
     status |-> "pending"]

\* the row handed to insert
NewRow(t) ==
    [user_id |-> t.owner,
     document_front_url  |-> getPublicUrl(Path(t.owner, "front", t.ts)),
     document_back_url   |-> getPublicUrl(Path(t.owner, "back", t.ts)),
     document_selfie_url |-> getPublicUrl(Path(t.owner, "selfie", t.ts)),
     status |-> "pending"]

----------------------------------------------------------------------------
(* part_000 (DocumentVerification) : operations *)

DocMounted == location = "/verificacao"

\* useAuth : the session changes
SignIn(u) ==
    /\ user = NoUser
    /\ user' = u
    /\ UNCHANGED <<documentImages, readers, inputFiles, isUploading, pc, task, storage,
                   uploadCalls, insertCalls, records, now, selVars, fnVars, payVars, lastOp>>

SignOut ==
    /\ user # NoUser
    /\ user' = NoUser
    /\ UNCHANGED <<documentImages, readers, inputFiles, isUploading, pc, task, storage,
                   uploadCalls, insertCalls, records, now, selVars, fnVars, payVars, lastOp>>

\* handleImageUpload : a file is selected for a slot, its decoding starts
handleImageUpload(imageId, file) ==
    /\ DocMounted
    /\ Cardinality(readers) < MaxReaders
    /\ [id |-> imageId, file |-> file] \notin readers
    /\ readers' = readers \cup {[id |-> imageId, file |-> file]}
    /\ inputFiles' = [inputFiles EXCEPT ![imageId] = file]
    /\ UNCHANGED <<user, documentImages, isUploading, pc, task, storage,
                   uploadCalls, insertCalls, records, now, selVars, fnVars, payVars, lastOp>>

\* reader.onload : setDocumentImages(prev => prev.map(...))
ReaderOnload(r) ==
    /\ DocMounted
    /\ r \in readers
    /\ readers' = readers \ {r}
    /\ documentImages' =
         [documentImages EXCEPT ![r.id] = [file |-> r.file, preview |-> DataUrl(r.file)]]
    /\ UNCHANGED <<user, inputFiles, isUploading, pc, task, storage,
                   uploadCalls, insertCalls, records, now, selVars, fnVars, payVars, lastOp>>

\* mutant: the finally block is missing
CatchWithoutFinally ==
    /\ toast' = "Erro ao enviar documentos"
    /\ isUploading' = isUploading
    /\ pc' = "idle"

\* catch { toast(...) } finally { setIsUploading(false) }
Catch ==
    /\ toast' = "Erro ao enviar documentos"
    /\ isUploading' = FALSE
    /\ pc' = "idle"

\* mutant: the completeness check comes before the session check
SubmitDocumentsCompletenessFirst ==
    /\ DocMounted
    /\ ~isUploading
    /\ pc = "idle"
    /\ IF ~allUploaded(documentImages)
       THEN /\ toast' = "Documentos incompletos"
            /\ UNCHANGED <<location, isUploading, pc, task, uploadCalls, now>>
       ELSE IF user = NoUser
       THEN /\ toast' = "Voce precisa estar logado"
            /\ location' = "/auth"
            /\ UNCHANGED <<isUploading, pc, task, uploadCalls, now>>
       ELSE /\ now <= MaxTime
            /\ isUploading' = TRUE
            /\ task' = [owner |-> user, ts |-> now,
                        files |-> [s \in SlotIds |-> documentImages[s].file],
                        results |-> [s \in SlotIds |-> "none"]]
            /\ now' = now + 1
            /\ uploadCalls' = Append(uploadCalls, Path(user, "front", now))
            /\ pc' = "front"
            /\ UNCHANGED <<location, toast>>
    /\ UNCHANGED <<user, documentImages, readers, inputFiles, storage, insertCalls, records,
                   plans, selectedPlan, selectedDuration, localStorage, fnVars, payVars, lastOp>>

\* handleContinue of DocumentVerification, up to its first await
SubmitDocuments ==
    /\ DocMounted
    /\ ~isUploading                     \* the button is disabled while uploading
    /\ pc = "idle"
    /\ IF user = NoUser
       THEN /\ toast' = "Voce precisa estar logado"
            /\ location' = "/auth"
            /\ UNCHANGED <<isUploading, pc, task, uploadCalls, now>>
       ELSE IF ~allUploaded(documentImages)
       THEN /\ toast' = "Documentos incompletos"
            /\ UNCHANGED <<location, isUploading, pc, task, uploadCalls, now>>
       ELSE /\ now <= MaxTime
            /\ isUploading' = TRUE
            /\ task' = [owner |-> user, ts |-> now,
                        files |-> [s \in SlotIds |-> documentImages[s].file],
                        results |-> [s \in SlotIds |-> "none"]]
            /\ now' = now + 1
            /\ uploadCalls' = Append(uploadCalls, Path(user, "front", now))
            /\ pc' = "front"
            /\ UNCHANGED <<location, toast>>
    /\ UNCHANGED <<user, documentImages, readers, inputFiles, storage, insertCalls, records,
                   plans, selectedPlan, selectedDuration, localStorage, fnVars, payVars, lastOp>>

\* mutant: the file is read from the slot when the upload is made
SubmittedFileFromSlot(t, slot) == documentImages[slot].file

\* frontFile, backFile, selfieFile : constants taken before the first upload
SubmittedFile(t, slot) == t.files[slot]

\* the awaited upload of slot pc settles; the handler runs on to its next await
UploadSettles(outcome) ==
    /\ pc \in SlotIds
    /\ IF outcome = "throw"
       THEN /\ Catch
            /\ UNCHANGED <<task, storage, uploadCalls, insertCalls>>
       ELSE LET results == [task.results EXCEPT ![pc] = outcome]
                next == NextUpload(pc)
            IN  /\ task' = [task EXCEPT !.results = results]
                /\ storage' = IF outcome = "ok"
                              THEN storage \cup {[path |-> Path(task.owner, pc, task.ts),
                                                  file |-> SubmittedFile(task, pc)]}
                              ELSE storage
                /\ IF next # "none"
                   THEN /\ uploadCalls' = Append(uploadCalls, Path(task.owner, next, task.ts))
                        /\ pc' = next
                        /\ UNCHANGED <<toast, isUploading, insertCalls>>
                   ELSE IF AnyUploadError(results)
                   THEN /\ Catch
                        /\ UNCHANGED <<uploadCalls, insertCalls>>
                   ELSE /\ insertCalls' = insertCalls + 1
                        /\ pc' = "insert"
                        /\ UNCHANGED <<toast, isUploading, uploadCalls>>
    /\ UNCHANGED <<user, documentImages, readers, inputFiles, records, now, location,
                   plans, selectedPlan, selectedDuration, localStorage, fnVars, payVars, lastOp>>

\* mutant: the error of the insert is not looked at
InsertSettlesIgnoresError(outcome) ==
    /\ pc = "insert"
    /\ records' = IF outcome = "ok" THEN Append(records, NewRow(task)) ELSE records
    /\ toast' = "Documentos enviados"
    /\ location' = "/dashboard"
    /\ isUploading' = FALSE
    /\ pc' = "idle"
    /\ UNCHANGED <<user, documentImages, readers, inputFiles, task, storage, uploadCalls,
                   insertCalls, now, plans, selectedPlan, selectedDuration,
                   localStorage, fnVars, payVars, lastOp>>

\* the awaited insert settles
InsertSettles(outcome) ==
    /\ pc = "insert"
    /\ IF outcome = "ok"
       THEN /\ records' = Append(records, NewRow(task))
            /\ toast' = "Documentos enviados"
            /\ location' = "/dashboard"
            /\ isUploading' = FALSE
            /\ pc' = "idle"
       ELSE /\ Catch
            /\ UNCHANGED <<records, location>>
    /\ UNCHANGED <<user, documentImages, readers, inputFiles, task, storage, uploadCalls,
                   insertCalls, now, plans, selectedPlan, selectedDuration,
                   localStorage, fnVars, payVars, lastOp>>

\* the route is entered again : the component mounts with its initial state
EnterVerification ==
    /\ location \in {"/auth", "/dashboard"}
    /\ location' = "/verificacao"
    /\ documentImages' = [s \in SlotIds |-> [file |-> NoFile, preview |-> Placeholder]]
    /\ readers' = {}
    /\ inputFiles' = [s \in SlotIds |-> NoFile]
    /\ task' = NoTask
    /\ UNCHANGED <<user, isUploading, pc, storage, uploadCalls, insertCalls,
                   records, now, toast, plans, selectedPlan, selectedDuration,
                   localStorage, fnVars, payVars, lastOp>>

\* file selections and their decodings alone
BindNext ==
    \/ \E s \in SlotIds, f \in Files : handleImageUpload(s, f)
    \/ \E r \in readers : ReaderOnload(r)

\* the whole screen; here a file is selected once the previous one is decoded
DocNext ==
    \/ \E u \in Users : SignIn(u)
    \/ SignOut
    \/ \E s \in SlotIds, f \in Files : readers = {} /\ handleImageUpload(s, f)
    \/ \E r \in readers : ReaderOnload(r)
    \/ SubmitDocuments
    \/ \E o \in {"ok", "error", "throw"} : UploadSettles(o)
    \/ \E o \in {"ok", "error"} : InsertSettles(o)
    \/ EnterVerification

\* the verification route is shown, whether reached from PlanSelection or directly
InitUpload ==
    /\ plans = <<>>
    /\ selectedPlan = NoPlan
    /\ selectedDuration = "3dias"
    /\ localStorage = [selectedPlan |-> Absent, selectedDuration |-> Absent]
    /\ location = "/verificacao"
    /\ toast = NoToast
    /\ DocIdle /\ PayIdle /\ FnIdle /\ lastOp = "init"

SpecUpload == InitUpload /\ [][DocNext]_vars

SpecBinding == InitUpload /\ [][BindNext]_vars

----------------------------------------------------------------------------
(* Properties of part_000 (DocumentVerification) *)

KeyOf(owner, slot, t) == <<"verification", owner, slot, t>>
UrlOf(key) == <<"public/verifications", key>>
Stored(key) == \E o \in storage : o.path = key
BoundSlots == {s \in SlotIds : documentImages[s].file # NoFile}
Ran == task # NoTask
Finished == Ran /\ pc = "idle"

\* C6: every row of verification_documents has status "pending" and three
\* addresses, each the address of an object that an upload of one and the
\* same submission stored for that slot.
C6_NoPartialRow ==
    \A i \in DOMAIN records :
        LET r == records[i] IN
        /\ r.status = "pending"
        /\ \E f, b, sf \in storage :
              /\ f.path[3] = "front" /\ b.path[3] = "back" /\ sf.path[3] = "selfie"
              /\ f.path[2] = r.user_id /\ b.path[2] = r.user_id /\ sf.path[2] = r.user_id
              /\ f.path[4] = b.path[4] /\ b.path[4] = sf.path[4]
              /\ r.document_front_url = UrlOf(f.path)
              /\ r.document_back_url = UrlOf(b.path)
              /\ r.document_selfie_url = UrlOf(sf.path)

\* a row was inserted
C6_Witness == Len(records) >= 1 /\ Cardinality(storage) >= 3

\* C7: when the insert of a submission succeeds (all three uploads having
\* succeeded), that step appends exactly one row: status "pending", user_id
\* the submitting user, and for each slot the address of the key under which
\* that slot's file was uploaded.
C7_OneRowOnSuccess ==
    [][(pc = "insert" /\ location' = "/dashboard")
       => /\ \A s \in SlotIds :
                /\ task.results[s] = "ok"
                /\ [path |-> KeyOf(task.owner, s, task.ts), file |-> task.files[s]]
                      \in storage
          /\ records' = Append(records,
                [user_id |-> task.owner,
                 document_front_url  |-> UrlOf(KeyOf(task.owner, "front", task.ts)),
                 document_back_url   |-> UrlOf(KeyOf(task.owner, "back", task.ts)),
                 document_selfie_url |-> UrlOf(KeyOf(task.owner, "selfie", task.ts)),
                 status |-> "pending"])]_vars

\* a submission went through: three uploads, one row, the dashboard is shown
C7_Witness ==
    /\ location = "/dashboard"
    /\ Finished
    /\ toast = "Documentos enviados"
    /\ Len(records) = 1
    /\ Len(uploadCalls) = 3

\* C8 (as claimed): once an upload of a submission has failed, no upload is
\* issued for a later slot of it, and the submission ends with the error
\* toast and without a row.
C8_FailureStopsLaterUploads ==
    [][/\ (pc \in SlotIds /\ uploadCalls' # uploadCalls)
            => \A s \in SlotIds : task'.results[s] # "error"
       /\ (pc \in SlotIds /\ pc' = "idle")
            => (toast' = "Erro ao enviar documentos" /\ records' = records)]_vars

\* C9 (as claimed): a submission whose back upload failed after its front
\* upload succeeded ends with the error toast, no row, and exactly one
\* stored object of its own, the front one.
C9_OneOrphanAfterBackFailure ==
    [][(pc \in SlotIds /\ pc' = "idle"
          /\ task'.results["front"] = "ok" /\ task'.results["back"] = "error")
       => /\ toast' = "Erro ao enviar documentos"
          /\ records' = records
          /\ {o \in storage' : o.path[2] = task.owner /\ o.path[4] = task.ts}
                = {[path |-> KeyOf(task.owner, "front", task.ts),
                    file |-> task.files["front"]]}]_vars

\* C10: a click on submit by a signed-in user with a slot unbound shows the
\* "Documentos incompletos" toast; no upload and no insert is issued, nothing
\* is stored, and isUploading stays false.
C10_IncompleteSubmissionIssuesNothing ==
    [][(DocMounted /\ pc = "idle" /\ user # NoUser /\ BoundSlots # SlotIds)
       => /\ uploadCalls' = uploadCalls
          /\ insertCalls' = insertCalls
          /\ storage' = storage
          /\ records' = records
          /\ isUploading = FALSE /\ isUploading' = FALSE
          /\ pc' = "idle"
          /\ toast' \in {toast, "Documentos incompletos"}
          /\ location' = location]_vars

\* the toast of an incomplete submission is shown with two of three slots bound
C10_Witness ==
    /\ toast = "Documentos incompletos"
    /\ user # NoUser
    /\ Cardinality(BoundSlots) = 2
    /\ uploadCalls = <<>> /\ insertCalls = 0
    /\ ~isUploading

\* C11: a click on submit without a session shows the sign-in toast and
\* navigates to /auth whatever the slots hold; no upload and no insert is
\* issued and nothing is stored.
C11_UnauthenticatedSubmitRedirects ==
    [][(DocMounted /\ pc = "idle" /\ user = "null")
       => /\ uploadCalls' = uploadCalls
          /\ insertCalls' = insertCalls
          /\ storage' = storage
          /\ records' = records
          /\ isUploading' = FALSE
          /\ pc' = "idle"
          /\ (toast' # toast \/ location' # location)
                => (toast' = "Voce precisa estar logado" /\ location' = "/auth")]_vars

\* the redirect happened with one slot still unbound
C11_Witness ==
    /\ location = "/auth"
    /\ toast = "Voce precisa estar logado"
    /\ user = "null"
    /\ Cardinality(BoundSlots) = 2
    /\ uploadCalls = <<>> /\ insertCalls = 0

\* C15: when the three uploads succeeded and the insert settles without
\* adding a row, the error toast is shown, the verification screen stays,
\* isUploading is false again and the three objects are in storage.
C15_InsertFailureIsReported ==
    [][(pc = "insert" /\ pc' = "idle" /\ records' = records)
       => /\ toast' = "Erro ao enviar documentos"
          /\ location' = "/verificacao"
          /\ isUploading' = FALSE
          /\ \A s \in SlotIds :
                [path |-> KeyOf(task.owner, s, task.ts), file |-> task.files[s]]
                   \in storage']_vars

\* three uploads went through and the insert failed
C15_Witness ==
    /\ Finished
    /\ \A s \in SlotIds : task.results[s] = "ok"
    /\ toast = "Erro ao enviar documentos"
    /\ location = "/verificacao"
    /\ records = <<>>
    /\ insertCalls = 1
    /\ Cardinality(storage) = 3

IsOwnCall(c) == c[2] = task.owner /\ c[4] = task.ts
OwnCalls == SelectSeq(uploadCalls, IsOwnCall)
UploadOrder == <<"front", "back", "selfie">>

\* C19: the upload calls of a submission are issued in the order front,
\* back, selfie, each only when the one before it has settled, and the
\* insert is awaited only when all three uploads have settled.
C19_UploadsAreSequential ==
    Ran =>
        /\ Len(OwnCalls) <= 3
        /\ \A i \in 1..Len(OwnCalls) :
              /\ OwnCalls[i] = KeyOf(task.owner, UploadOrder[i], task.ts)
              /\ i < Len(OwnCalls) => task.results[UploadOrder[i]] # "none"
        /\ pc \in SlotIds =>
              /\ Len(OwnCalls) >= 1
              /\ pc = UploadOrder[Len(OwnCalls)]
              /\ task.results[pc] = "none"
        /\ pc = "insert" =>
              /\ Len(OwnCalls) = 3
              /\ \A s \in SlotIds : task.results[s] # "none"

\* the three uploads were issued and the insert is awaited
C19_Witness == pc = "insert" /\ Len(uploadCalls) = 3 /\ insertCalls = 1

PendingOn(s) == {r \in readers : r.id = s}

\* C21: when handleImageUpload returns, the slot holds the file it was
\* given.
C21_BindIsSynchronous ==
    [][\A r \in readers' \ readers : documentImages'[r.id].file = r.file]_vars

\* C25: a submission takes the files bound when it passes the completeness
\* check and keeps them; every object it stores holds the file taken for
\* its slot, whatever is bound to the slots in the meantime.
C25_UploadsUseFilesOfSubmit ==
    /\ [][(pc = "idle" /\ pc' = "front")
           => \A s \in SlotIds : task'.files[s] = documentImages[s].file]_vars
    /\ [][(pc \in SlotIds)
           => /\ task'.files = task.files
              /\ \A o \in storage' \ storage :
                    (o.path = KeyOf(task.owner, pc, task.ts) /\ o.file = task.files[pc])]_vars

C25_Witness ==
    /\ pc = "insert"
    /\ \A s \in SlotIds :
          /\ [path |-> KeyOf(task.owner, s, task.ts), file |-> task.files[s]] \in storage
          /\ documentImages[s].file # task.files[s]

\* C26: a slot with no decoding in flight holds the file selected last for
\* it, with that file's preview.
C26_LastBindWins ==
    \A s \in SlotIds :
        (inputFiles[s] # NoFile /\ PendingOn(s) = {})
            => documentImages[s] = [file |-> inputFiles[s], preview |-> <<"data:", inputFiles[s]>>]

----------------------------------------------------------------------------
(* Pricing functions applied to every base price and duration *)

FnInit ==
    /\ fnBasePrice \in 0..MaxBasePrice
    /\ fnDuration = "none"
    /\ fnAmount = NotComputed
    /\ fnAvailable = {}

ApplyCalculatePrice(d) ==
    /\ fnDuration' = d
    /\ fnAmount' = calculatePrice(fnBasePrice, durationOptions[d])
    /\ lastOp' = "calculatePrice"
    /\ UNCHANGED <<fnBasePrice, fnAvailable, selVars, docVars, payVars>>

ApplyGetAvailableDurations ==
    /\ fnAvailable' = getAvailableDurations([id |-> "plan-1", price |-> fnBasePrice])
    /\ lastOp' = "getAvailableDurations"
    /\ UNCHANGED <<fnBasePrice, fnDuration, fnAmount, selVars, docVars, payVars>>

FnNext ==
    \/ \E d \in DurationIds : ApplyCalculatePrice(d)
    \/ ApplyGetAvailableDurations

InitPricing == SelInit /\ DocIdle /\ PayIdle /\ FnInit /\ lastOp = "init"

SpecPricing == InitPricing /\ [][FnNext]_vars

====
